---- MODULE Spec2Model ----
(***************************************************************************)
(* Street Hunt API (src/index.js): rooms, players and locations kept in    *)
(* SQLite, and the GET /state/:room handler that derives the zone radius,  *)
(* detects catches (writing them back) and projects the players for the    *)
(* viewer.  Every handler is synchronous (better-sqlite3), so one handler  *)
(* is one atomic action; SpecRace takes GET /state/:room apart into its    *)
(* steps on the database, for server processes that share the file.        *)
(*                                                                         *)
(* Units.  Latitudes and longitudes are integers in micro-degrees.         *)
(* Distances returned by distMeters are integers in millimetres; rounded   *)
(* distances placed in responses are integers in metres.  Times are        *)
(* milliseconds (Date.now()).                                              *)
(***************************************************************************)
EXTENDS Integers, Sequences, FiniteSets, TLC

\* ------------------------------------------------------------------ bounds
MaxRooms == 2        \* rooms ever created
MaxPlayers == 2      \* players ever joined (ids are never reused)
MaxTicks == 1        \* clock advances (of half a second)
MaxZoneRooms == 1    \* SpecZone: rooms ever created
MaxZonePlayers == 1  \* SpecZone: players ever joined
MaxZoneTicks == 5    \* SpecZone: clock advances (of half a second)
MaxRaceRooms == 1    \* SpecRace: rooms ever created
MaxRacePlayers == 2  \* SpecRace: players ever joined
MaxOverlap == 2      \* SpecRace: state requests handled at the same time
MaxCatchRooms == 1   \* SpecCatch: rooms ever created
MaxCatchPlayers == 3 \* SpecCatch: players ever joined
MaxViewRooms == 2    \* SpecViewer: rooms ever created
MaxViewPlayers == 2  \* SpecViewer: players ever joined

\* --------------------------------------------------------- JavaScript values
\* A JavaScript / JSON / SQLite value is a tagged record, so that values of
\* different types can be compared.
Undefined == [t |-> "undefined"]
Null == [t |-> "null"]
NaN == [t |-> "NaN"]
Infinity == [t |-> "Infinity"]
Num(n) == [t |-> "number", v |-> n]
\* a string that is not a numeral, e.g. "abc"
Str(s) == [t |-> "string", v |-> s]
\* the string that is the decimal numeral of n, e.g. "10"
NumStr(n) == [t |-> "numstr", v |-> n]

IsNum(x) == x.t = "number"

\* x == null (loose): null or undefined
IsNullish(x) == x.t \in {"null", "undefined"}

\* ToBoolean(x)
Truthy(x) ==
  CASE x.t = "number" -> x.v # 0
    [] x.t \in {"string", "numstr"} -> TRUE
    [] OTHER -> FALSE

\* x || d
OrElse(x, d) == IF Truthy(x) THEN x ELSE d

\* parseInt(x): the integer a numeral starts with, NaN for anything else
parseInt(x) ==
  CASE x.t \in {"number", "numstr"} -> Num(x.v)
    [] OTHER -> NaN

\* Number(x) for the values a row can hold
ToNumber(x) ==
  CASE x.t \in {"number", "numstr"} -> Num(x.v)
    [] x.t = "null" -> Num(0)
    [] x.t = "Infinity" -> Infinity
    [] OTHER -> NaN

\* the global isFinite(x): ToNumber(x) is neither NaN nor infinite
isFinite(x) == IsNum(ToNumber(x))

Min2(a, b) == IF a <= b THEN a ELSE b
Max2(a, b) == IF a >= b THEN a ELSE b

\* Math.min(a, b) / Math.max(a, b) on numbers, NaN if either is NaN
MathMin(a, b) == IF IsNum(a) /\ IsNum(b) THEN Num(Min2(a.v, b.v)) ELSE NaN
MathMax(a, b) == IF IsNum(a) /\ IsNum(b) THEN Num(Max2(a.v, b.v)) ELSE NaN

clamp(v, min, max) == MathMax(Num(min), MathMin(Num(max), v))

\* better-sqlite3 binding a JavaScript number or null to a column: NaN is
\* stored as NULL
SqlBind(x) ==
  CASE x.t \in {"number", "numstr"} -> Num(x.v)
    [] OTHER -> Null

\* JSON.stringify of a number-valued field: NaN and Infinity become null
JsonNum(x) == IF x.t \in {"NaN", "Infinity"} THEN Null ELSE x

\* a <= b on JavaScript numbers: false when either is NaN
Leq(a, b) ==
  CASE a.t = "NaN" \/ b.t = "NaN" -> FALSE
    [] a.t = "Infinity" -> b.t = "Infinity"
    [] b.t = "Infinity" -> TRUE
    [] OTHER -> a.v <= b.v

\* Math.round of a distance in millimetres, giving metres
MathRound(d) == IF IsNum(d) THEN Num((d.v + 500) \div 1000) ELSE d

Abs(n) == IF n < 0 THEN -n ELSE n

\* haversine distance.  Every known longitude of the model is the same
\* meridian, where the haversine formula reduces to R * |dLat| (radians):
\* 6371000 m * pi / 180 = 111194.93 m per degree = 111.195 mm per
\* micro-degree.
distMeters(aLat, aLng, bLat, bLng) ==
  IF \E x \in {aLat, aLng, bLat, bLng} : IsNullish(x)
    THEN Infinity
    ELSE Num((Abs(bLat.v - aLat.v) * 111195) \div 1000)

\* ------------------------------------------------------------------- state
VARIABLES
  rooms,         \* table rooms: code -> [startRadius, shrinkStepSec, shrinkAmount, startedAt]
  players,       \* table players: id -> [room, name, role, status, lastSeen]
  locations,     \* table locations: playerId -> [lat, lng, ts]
  nextId,        \* the next player id uuidv4() hands out (ids are never reused)
  clock,         \* Date.now()
  resp,          \* the response on its way to the client, as serialised by res.json
  statusWrites,  \* ids of the players whose status the request just handled wrote
  inflight       \* state requests being handled by server processes that overlap

vars == <<rooms, players, locations, nextId, clock, resp, statusWrites, inflight>>

\* the value a request carries when it names no room or no player
NoId == 0
\* no response is on its way
NoResponse == [op |-> "none", http |-> 0]
\* no state request is being handled
NoRace == [base |-> <<>>, reqs |-> <<>>]

\* f without key k
Without(f, k) == [x \in DOMAIN f \ {k} |-> f[x]]

\* const now = () => Date.now()
now == clock

\* uid(): a code not in use (the next one)
uid == Cardinality(DOMAIN rooms) + 1

\* a lookup that answers with a row of NULLs for a code not in the table
getRoomPhantom(code) ==
  IF code \in DOMAIN rooms THEN rooms[code]
  ELSE [startRadius |-> Null, shrinkStepSec |-> Null, shrinkAmount |-> Null, startedAt |-> Null]

\* getRoom(code): the row, or undefined
getRoom(code) == IF code \in DOMAIN rooms THEN rooms[code] ELSE Undefined

Init ==
  /\ rooms = <<>>
  /\ players = <<>>
  /\ locations = <<>>
  /\ nextId = 1
  /\ clock = 1000
  /\ resp = NoResponse
  /\ statusWrites = <<>>
  /\ inflight = NoRace

\* ------------------------------------------------------------- POST /rooms
\* body values startRadius, shrinkStepSec, shrinkAmount; code is what uid()
\* returns: a fresh code, or (a collision) one in use, and then the INSERT
\* throws on the PRIMARY KEY and nothing is stored.
CreateRoom(code, sr, ss, sa) ==
  LET startRadius == clamp(parseInt(OrElse(sr, Num(800))), 20, 100000)
      shrinkStepSec == clamp(parseInt(OrElse(ss, Num(20))), 1, 86400)
      shrinkAmount == clamp(parseInt(OrElse(sa, Num(50))), 1, 100000)
  IN /\ code \in DOMAIN rooms \cup {uid}
     /\ IF code \in DOMAIN rooms
          THEN /\ resp' = [op |-> "createRoom", http |-> 500]
               /\ rooms' = rooms
          ELSE /\ rooms' = rooms @@ (code :> [startRadius |-> SqlBind(startRadius),
                                             shrinkStepSec |-> SqlBind(shrinkStepSec),
                                             shrinkAmount |-> SqlBind(shrinkAmount),
                                             startedAt |-> Null])
               /\ resp' = [op |-> "createRoom", http |-> 200, code |-> code,
                           startRadius |-> JsonNum(startRadius),
                           shrinkStepSec |-> JsonNum(shrinkStepSec),
                           shrinkAmount |-> JsonNum(shrinkAmount)]
     /\ statusWrites' = <<>>
     /\ UNCHANGED <<players, locations, nextId, clock, inflight>>

\* ------------------------------------------------- POST /rooms/:code/start
\* UPDATE rooms SET startedAt = now WHERE code = ?: the new startedAt of row r
startedAtAfterStartOnce(r, nowTs) == IF r.startedAt = Null THEN Num(nowTs) ELSE r.startedAt
startedAtAfterStart(r, nowTs) == Num(nowTs)

StartRoom(code) ==
  LET nowTs == now
  IN /\ IF code \in DOMAIN rooms
          THEN /\ rooms' = [rooms EXCEPT ![code].startedAt = startedAtAfterStart(rooms[code], nowTs)]
               /\ resp' = [op |-> "start", http |-> 200, startedAt |-> Num(nowTs)]
          ELSE /\ rooms' = rooms
               /\ resp' = [op |-> "start", http |-> 404]
     /\ statusWrites' = <<>>
     /\ UNCHANGED <<players, locations, nextId, clock, inflight>>

\* -------------------------------------------------------------- POST /join
\* room: NoId when the body names none; name: Undefined or a short string
\* (slice(0,40) leaves it as it is); role: any string
Join(room, name, role) ==
  LET nm == OrElse(name, Str("Player"))
      rl == IF role = "runner" THEN "runner" ELSE "hunter"
      id == nextId
      ts == now
  IN /\ IF room = NoId
          THEN /\ resp' = [op |-> "join", http |-> 400]
               /\ UNCHANGED <<players, nextId>>
          ELSE IF getRoom(room) = Undefined
          THEN /\ resp' = [op |-> "join", http |-> 404]
               /\ UNCHANGED <<players, nextId>>
          ELSE /\ players' = players @@ (id :> [room |-> room, name |-> nm, role |-> rl,
                                               status |-> "ready", lastSeen |-> Num(ts)])
               /\ nextId' = nextId + 1
               /\ resp' = [op |-> "join", http |-> 200, id |-> id, name |-> nm,
                           role |-> rl, room |-> room]
     /\ statusWrites' = <<>>
     /\ UNCHANGED <<rooms, locations, clock, inflight>>

\* ------------------------------------------------------------- POST /leave
\* a leave whose second DELETE is missing
LeaveOrphaning(id, fkEnforced) ==
  /\ IF id = NoId
       THEN /\ resp' = [op |-> "leave", http |-> 400]
            /\ UNCHANGED <<players, locations>>
       ELSE /\ players' = Without(players, id)
            /\ locations' = locations
            /\ resp' = [op |-> "leave", http |-> 200]
  /\ statusWrites' = <<>>
  /\ UNCHANGED <<rooms, nextId, clock, inflight>>

\* DELETE FROM players, then DELETE FROM locations.  fkEnforced: whether the
\* SQLite build enforces FOREIGN KEY constraints (the source sets no pragma);
\* if it does, the first DELETE throws while a locations row references the
\* player, and the handler ends with neither row deleted.
Leave(id, fkEnforced) ==
  /\ IF id = NoId
       THEN /\ resp' = [op |-> "leave", http |-> 400]
            /\ UNCHANGED <<players, locations>>
       ELSE IF fkEnforced /\ id \in DOMAIN players /\ id \in DOMAIN locations
       THEN /\ resp' = [op |-> "leave", http |-> 500]
            /\ UNCHANGED <<players, locations>>
       ELSE /\ players' = Without(players, id)
            /\ locations' = Without(locations, id)
            /\ resp' = [op |-> "leave", http |-> 200]
  /\ statusWrites' = <<>>
  /\ UNCHANGED <<rooms, nextId, clock, inflight>>

\* ---------------------------------------------------------- POST /location
\* the validation of line 131
locationFieldsOk(playerId, lat, lng) == playerId # NoId /\ isFinite(lat) /\ isFinite(lng)

\* UPDATE players SET lastSeen = ? WHERE id = ? (line 140): the row after
touchPlayerReplacingRow(p, ts) == [p EXCEPT !.lastSeen = Num(ts), !.status = "ready"]
touchPlayer(p, ts) == [p EXCEPT !.lastSeen = Num(ts)]

Location(playerId, lat, lng) ==
  LET ts == now
  IN /\ IF ~locationFieldsOk(playerId, lat, lng)
          THEN /\ resp' = [op |-> "location", http |-> 400]
               /\ UNCHANGED <<players, locations>>
          ELSE IF playerId \notin DOMAIN players
          THEN /\ resp' = [op |-> "location", http |-> 404]
               /\ UNCHANGED <<players, locations>>
          ELSE /\ locations' = [x \in DOMAIN locations \cup {playerId} |->
                                  IF x = playerId
                                    THEN [lat |-> SqlBind(lat), lng |-> SqlBind(lng), ts |-> Num(ts)]
                                    ELSE locations[x]]
               /\ players' = [players EXCEPT ![playerId] = touchPlayer(players[playerId], ts)]
               /\ resp' = [op |-> "location", http |-> 200, ts |-> Num(ts)]
     /\ statusWrites' = <<>>
     /\ UNCHANGED <<rooms, nextId, clock, inflight>>

\* -------------------------------------------------------- GET /state/:room
\* the zone radius of lines 154-159 for a rooms row at time nowMs
zoneRadiusNoFloor(roomRow, nowMs) ==
  LET start == ToNumber(OrElse(roomRow.startRadius, Num(800))).v
  IN IF Truthy(roomRow.startedAt)
       THEN LET elapsedMs == nowMs - roomRow.startedAt.v
                steps == elapsedMs \div (MathMax(Num(1), ToNumber(roomRow.shrinkStepSec)).v * 1000)
            IN start - steps * OrElse(roomRow.shrinkAmount, Num(50)).v
       ELSE start
zoneRadius(roomRow, nowMs) ==
  LET start == ToNumber(OrElse(roomRow.startRadius, Num(800))).v
  IN IF Truthy(roomRow.startedAt)
       THEN LET elapsedMs == nowMs - roomRow.startedAt.v
                steps == elapsedMs \div (MathMax(Num(1), ToNumber(roomRow.shrinkStepSec)).v * 1000)
            IN Max2(20, start - steps * OrElse(roomRow.shrinkAmount, Num(50)).v)
       ELSE start

\* the snapshot of lines 162-165: players of the room LEFT JOIN locations
inRoomAny(p, room) == TRUE
inRoom(p, room) == p.room = room
playerRows(room) ==
  [id \in {p \in DOMAIN players : inRoom(players[p], room)} |->
     LET hasLoc == id \in DOMAIN locations
     IN [id |-> id, name |-> players[id].name, role |-> players[id].role,
         status |-> players[id].status, lastSeen |-> players[id].lastSeen,
         lat |-> IF hasLoc THEN locations[id].lat ELSE Null,
         lng |-> IF hasLoc THEN locations[id].lng ELSE Null,
         ts |-> IF hasLoc THEN locations[id].ts ELSE Null]]

\* the helper map of lines 172-184
helperMap(rows) ==
  [id \in DOMAIN rows |->
     [id |-> rows[id].id, name |-> rows[id].name, role |-> rows[id].role,
      status |-> IF rows[id].status # "" THEN rows[id].status ELSE "ready",
      lastSeen |-> OrElse(rows[id].lastSeen, Null),
      lat |-> IF ~IsNullish(rows[id].lat) THEN rows[id].lat ELSE Null,
      lng |-> IF ~IsNullish(rows[id].lng) THEN rows[id].lng ELSE Null,
      locTs |-> OrElse(rows[id].ts, Null)]]

\* the keys of a map in iteration order (the order the rows came in: by id)
RECURSIVE keysOf(_)
keysOf(S) ==
  IF S = {} THEN <<>>
  ELSE LET m == CHOOSE x \in S : \A y \in S : x <= y
       IN <<m>> \o keysOf(S \ {m})

\* catchMeters of line 169, in metres; the query value is Undefined or a string
catchMetersOf(cm) == parseInt(OrElse(cm, NumStr(30)))

\* d <= catchMeters (line 195), d in millimetres and catchMeters in metres
withinCatchStrict(d, catchMeters) ==
  IsNum(catchMeters) /\ IsNum(d) /\ d.v < catchMeters.v * 1000
withinCatch(d, catchMeters) ==
  Leq(d, IF IsNum(catchMeters) THEN Num(catchMeters.v * 1000) ELSE catchMeters)

\* line 189: the outer loop skips a that is no hunter or has no latitude
skipHunter(a) == a.role # "hunter" \/ a.lat = Null
\* lines 191-193: the inner loop skips a itself, and b that is no runner or has no latitude
skipRunnerAnyRole(aId, bId, b) == aId = bId \/ b.lat = Null
skipRunner(aId, bId, b) == aId = bId \/ b.role # "runner" \/ b.lat = Null

\* line 196: the write is issued only for a runner not yet caught
needsWriteAlways(b) == TRUE
needsWrite(b) == b.status # "caught"

\* lines 190-201: the inner loop over bIds for hunter aId; st = [players, writes]
RECURSIVE catchInner(_, _, _, _)
catchInner(st, aId, bIds, catchMeters) ==
  IF bIds = <<>> THEN st
  ELSE LET bId == Head(bIds)
           a == st.players[aId]
           b == st.players[bId]
           hit == /\ ~skipRunner(aId, bId, b)
                  /\ withinCatch(distMeters(a.lat, a.lng, b.lat, b.lng), catchMeters)
                  /\ needsWrite(b)
           st2 == IF hit
                    THEN [players |-> [st.players EXCEPT ![bId].status = "caught"],
                          writes |-> Append(st.writes, bId)]
                    ELSE st
       IN catchInner(st2, aId, Tail(bIds), catchMeters)

\* lines 187-202: the outer loop over aIds
RECURSIVE catchOuter(_, _, _, _)
catchOuter(st, aIds, allIds, catchMeters) ==
  IF aIds = <<>> THEN st
  ELSE LET aId == Head(aIds)
           st2 == IF skipHunter(st.players[aId]) THEN st
                  ELSE catchInner(st, aId, allIds, catchMeters)
       IN catchOuter(st2, Tail(aIds), allIds, catchMeters)

\* catch detection over the helper map: [players |-> the map after, writes |-> ids written]
detectCatches(map, catchMeters) ==
  catchOuter([players |-> map, writes |-> <<>>], keysOf(DOMAIN map), keysOf(DOMAIN map),
             catchMeters)

\* a playerId that is the name of a property every object inherits from
\* Object.prototype ("constructor", "toString", "__proto__", ...)
ProtoKey == -1
\* what players[ProtoKey] is: a truthy object that has no id, role, lat or lng
\* (the role is the empty string here: it is not 'hunter')
InheritedProperty == [id |-> NoId, role |-> "", lat |-> Undefined, lng |-> Undefined]

\* line 205: viewerId && players[viewerId] ? players[viewerId] : null, where
\* players is a plain object ({} at line 172)
viewerOf(map, viewerId) ==
  IF viewerId = NoId THEN Null
  ELSE IF viewerId \in DOMAIN map THEN map[viewerId]
  ELSE IF viewerId = ProtoKey THEN InheritedProperty
  ELSE Null

\* the rounded distance of lines 240 and 256, as serialised
roundedDistance(viewer, p) ==
  IF ~IsNullish(p.lat) /\ ~IsNullish(viewer.lat)
    THEN JsonNum(MathRound(distMeters(viewer.lat, viewer.lng, p.lat, p.lng)))
    ELSE Null

\* lines 224-264: what is sent about player p to the viewer
anonymousEntryLeaky(p) ==
  [id |-> p.id, name |-> p.name, role |-> p.role, status |-> p.status, lat |-> p.lat, lng |-> p.lng]
anonymousEntry(p) ==
  [id |-> p.id, name |-> p.name, role |-> p.role, status |-> p.status]

hunterViewEntryNoDistance(viewer, p) ==
  [id |-> p.id, name |-> p.name, role |-> p.role, status |-> p.status,
   lat |-> p.lat, lng |-> p.lng, lastSeen |-> p.lastSeen, distanceToViewer |-> Null]
hunterViewEntry(viewer, p) ==
  [id |-> p.id, name |-> p.name, role |-> p.role, status |-> p.status,
   lat |-> p.lat, lng |-> p.lng, lastSeen |-> p.lastSeen,
   distanceToViewer |-> roundedDistance(viewer, p)]

runnerViewEntryHunterCoords(viewer, p) ==
  IF p.id = viewer.id \/ p.role = "hunter"
    THEN [id |-> p.id, name |-> p.name, role |-> p.role, status |-> p.status,
          lat |-> p.lat, lng |-> p.lng, lastSeen |-> p.lastSeen]
    ELSE [id |-> p.id, name |-> p.name, role |-> p.role, status |-> p.status,
          lastSeen |-> p.lastSeen]
runnerViewEntry(viewer, p) ==
  IF p.id = viewer.id
    THEN [id |-> p.id, name |-> p.name, role |-> p.role, status |-> p.status,
          lat |-> p.lat, lng |-> p.lng, lastSeen |-> p.lastSeen]
  ELSE IF p.role = "hunter"
    THEN [id |-> p.id, name |-> p.name, role |-> p.role, status |-> p.status,
          distanceToRunner |-> roundedDistance(viewer, p), lastSeen |-> p.lastSeen]
    ELSE [id |-> p.id, name |-> p.name, role |-> p.role, status |-> p.status,
          lastSeen |-> p.lastSeen]

sendPlayers(map, viewer) ==
  [id \in DOMAIN map |->
     IF viewer = Null THEN anonymousEntry(map[id])
     ELSE IF viewer.role = "hunter" THEN hunterViewEntry(viewer, map[id])
     ELSE runnerViewEntry(viewer, map[id])]

\* UPDATE players SET status = 'caught' WHERE id = ? (line 198): the row after
writeStatusToggle(p) == [p EXCEPT !.status = IF p.status = "caught" THEN "ready" ELSE "caught"]
writeStatus(p) == [p EXCEPT !.status = "caught"]

\* the handler; room = NoId never matches a row
State(room, viewerId, cm) ==
  LET roomRow == getRoom(room)
      nowMs == now
      catchMeters == catchMetersOf(cm)
      caught == detectCatches(helperMap(playerRows(room)), catchMeters)
      viewer == viewerOf(caught.players, viewerId)
  IN /\ IF roomRow = Undefined
          THEN /\ resp' = [op |-> "state", http |-> 404]
               /\ players' = players
               /\ statusWrites' = <<>>
          ELSE /\ players' = [id \in DOMAIN players |->
                                IF \E i \in DOMAIN caught.writes : caught.writes[i] = id
                                  THEN writeStatus(players[id])
                                  ELSE players[id]]
               /\ statusWrites' = caught.writes
               /\ resp' = [op |-> "state", http |-> 200,
                           room |-> [code |-> room,
                                     startRadius |-> roomRow.startRadius,
                                     shrinkStepSec |-> roomRow.shrinkStepSec,
                                     shrinkAmount |-> roomRow.shrinkAmount,
                                     startedAt |-> roomRow.startedAt,
                                     zoneRadius |-> Num(zoneRadius(roomRow, nowMs))],
                           players |-> sendPlayers(caught.players, viewer),
                           now |-> Num(nowMs)]
     /\ UNCHANGED <<rooms, locations, nextId, clock, inflight>>

\* ------------------------------------------------------------------- clock
\* Date.now() advances by half a second
Tick ==
  /\ clock' = clock + 500
  /\ UNCHANGED <<rooms, players, locations, nextId, resp, statusWrites, inflight>>

\* ------------------------------------------------------------------ client
\* The client takes the response.  The handlers read the tables only, never
\* a response, so the model lets the next request in once the last response
\* is taken; Idle says so.
Receive ==
  /\ resp # NoResponse
  /\ resp' = NoResponse
  /\ statusWrites' = <<>>
  /\ UNCHANGED <<rooms, players, locations, nextId, clock, inflight>>

Idle == resp = NoResponse

\* ------------------------------------------------------------ request values
Lat0 == Num(10000000)
Lat1 == Num(10000200)
Lng0 == Num(10000000)

NameInputs == {Undefined}
RoleInputs == {"runner", "hunter", "spectator"}
\* body values lat, lng of POST /location
CoordInputs == {<<Lat0, Lng0>>, <<Lat1, Lng0>>, <<Lat0, Null>>, <<Null, Lng0>>,
                <<Undefined, Lng0>>, <<Lat0, Str("abc")>>}
\* query value catchMeters of GET /state
CatchInputs == {Undefined, NumStr(0), Str("abc")}
\* body values startRadius, shrinkStepSec, shrinkAmount of POST /rooms
DefaultConfig == <<Undefined, Undefined, Undefined>>
ConfigInputs == {DefaultConfig,
                 <<Num(40), Num(1), Num(15)>>,
                 <<Num(-5), Num(0), Num(-1)>>,
                 <<Num(200000), Num(90000), Num(200000)>>,
                 <<Str("abc"), Str("abc"), Str("abc")>>,
                 <<Num(40), Num(1), Str("abc")>>,
                 <<NumStr(60), NumStr(1), NumStr(30)>>}

\* Spec: two rooms of the default configuration, two players, every kind of
\* location and catchMeters value
Next ==
  \/ Idle /\ \E code \in 1..MaxRooms :
       CreateRoom(code, DefaultConfig[1], DefaultConfig[2], DefaultConfig[3])
  \/ Idle /\ \E code \in 1..MaxRooms : StartRoom(code)
  \/ Idle /\ nextId <= MaxPlayers
          /\ \E room \in (1..MaxRooms) \cup {NoId}, name \in NameInputs, role \in RoleInputs :
               Join(room, name, role)
  \/ Idle /\ \E id \in (1..MaxPlayers) \cup {NoId}, fkEnforced \in BOOLEAN : Leave(id, fkEnforced)
  \/ Idle /\ \E id \in (1..MaxPlayers) \cup {NoId}, c \in CoordInputs : Location(id, c[1], c[2])
  \/ Idle /\ \E room \in 1..MaxRooms, viewerId \in (1..MaxPlayers) \cup {NoId}, cm \in CatchInputs :
       State(room, viewerId, cm)
  \/ Receive
  \/ Idle /\ clock < 1000 + MaxTicks * 500 /\ Tick

Spec == Init /\ [][Next]_vars

\* SpecZone: one room of every kind of configuration, one player, a clock
\* that runs long enough for the zone to shrink to its floor
NextZone ==
  \/ Idle /\ \E code \in 1..MaxZoneRooms, c \in ConfigInputs : CreateRoom(code, c[1], c[2], c[3])
  \/ Idle /\ \E code \in 1..MaxZoneRooms : StartRoom(code)
  \/ Idle /\ nextId <= MaxZonePlayers
          /\ \E room \in (1..MaxZoneRooms) \cup {NoId} : Join(room, Undefined, "runner")
  \/ Idle /\ \E id \in (1..MaxZonePlayers) \cup {NoId} : Leave(id, FALSE)
  \/ Idle /\ \E id \in (1..MaxZonePlayers) \cup {NoId} : Location(id, Lat0, Lng0)
  \/ Idle /\ \E room \in 1..MaxZoneRooms, viewerId \in (1..MaxZonePlayers) \cup {NoId} :
       State(room, viewerId, Undefined)
  \/ Receive
  \/ Idle /\ clock < 1000 + MaxZoneTicks * 500 /\ Tick

SpecZone == Init /\ [][NextZone]_vars

\* ------------------------------------- GET /state/:room, handlers that overlap
\* One Node process runs a handler to its end before the next.  Server
\* processes that share the database file (journal_mode = WAL, line 20) each
\* run their own handler: the snapshot query and every UPDATE is one step on
\* the database, and the loops between work on the handler's local map.

\* lines 148-184: the handler finds its room, computes the zone radius and
\* takes its snapshot; the catches of lines 186-202 follow from the snapshot,
\* their UPDATEs are still to be issued
TakeSnapshot(room, viewerId, cm) ==
  LET roomRow == getRoom(room)
      map == helperMap(playerRows(room))
      caught == detectCatches(map, catchMetersOf(cm))
  IN /\ roomRow # Undefined
     /\ Len(inflight.reqs) < MaxOverlap
     /\ \A k \in DOMAIN inflight.reqs : inflight.reqs[k].room.code = room
     /\ inflight' =
          [base |-> IF inflight.reqs = <<>> THEN map ELSE inflight.base,
           reqs |-> Append(inflight.reqs,
                      [room |-> [code |-> room,
                                 startRadius |-> roomRow.startRadius,
                                 shrinkStepSec |-> roomRow.shrinkStepSec,
                                 shrinkAmount |-> roomRow.shrinkAmount,
                                 startedAt |-> roomRow.startedAt,
                                 zoneRadius |-> Num(zoneRadius(roomRow, now))],
                       viewerId |-> viewerId, cm |-> cm,
                       players |-> caught.players,
                       writes |-> caught.writes, issued |-> <<>>, done |-> FALSE])]
     /\ UNCHANGED <<rooms, players, locations, nextId, clock, resp, statusWrites>>

\* line 198: handler k issues its next UPDATE
IssueWrite(k) ==
  /\ k \in DOMAIN inflight.reqs
  /\ inflight.reqs[k].writes # <<>>
  /\ LET bId == Head(inflight.reqs[k].writes)
     IN /\ players' = [id \in DOMAIN players |->
                         IF id = bId THEN writeStatus(players[id]) ELSE players[id]]
        /\ inflight' = [inflight EXCEPT !.reqs[k].writes = Tail(@),
                                        !.reqs[k].issued = Append(@, bId)]
  /\ UNCHANGED <<rooms, locations, nextId, clock, resp, statusWrites>>

\* lines 204-278: handler k, its UPDATEs issued, projects its local map and
\* answers; the last handler to answer leaves none in flight
Respond(k) ==
  /\ k \in DOMAIN inflight.reqs
  /\ inflight.reqs[k].writes = <<>>
  /\ ~inflight.reqs[k].done
  /\ LET r == inflight.reqs[k]
     IN /\ resp' = [op |-> "state", http |-> 200, room |-> r.room,
                    players |-> sendPlayers(r.players, viewerOf(r.players, r.viewerId)),
                    now |-> Num(now)]
        /\ statusWrites' = r.issued
  /\ inflight' = IF \A j \in DOMAIN inflight.reqs \ {k} : inflight.reqs[j].done
                   THEN NoRace
                   ELSE [inflight EXCEPT !.reqs[k].done = TRUE]
  /\ UNCHANGED <<rooms, players, locations, nextId, clock>>

\* SpecRace: one room, a hunter and a runner, and state requests whose steps
\* interleave; no other request is handled while one of them is in flight
NextRace ==
  \/ Idle /\ inflight = NoRace
          /\ \E code \in 1..MaxRaceRooms :
               CreateRoom(code, DefaultConfig[1], DefaultConfig[2], DefaultConfig[3])
  \/ Idle /\ inflight = NoRace /\ nextId <= MaxRacePlayers
          /\ \E room \in 1..MaxRaceRooms, role \in {"runner", "hunter"} :
               Join(room, Undefined, role)
  \/ Idle /\ inflight = NoRace
          /\ \E id \in 1..MaxRacePlayers, lat \in {Lat0, Lat1} : Location(id, lat, Lng0)
  \/ \E room \in 1..MaxRaceRooms, cm \in {Undefined, NumStr(0)} : TakeSnapshot(room, NoId, cm)
  \/ \E k \in 1..MaxOverlap : IssueWrite(k)
  \/ Idle /\ \E k \in 1..MaxOverlap : Respond(k)
  \/ Receive

SpecRace == Init /\ [][NextRace]_vars

\* SpecCatch: one room with three players, so that two hunters can stand near
\* one runner
NextCatch ==
  \/ Idle /\ \E code \in 1..MaxCatchRooms :
       CreateRoom(code, DefaultConfig[1], DefaultConfig[2], DefaultConfig[3])
  \/ Idle /\ nextId <= MaxCatchPlayers
          /\ \E room \in 1..MaxCatchRooms, role \in {"runner", "hunter"} :
               Join(room, Undefined, role)
  \/ Idle /\ \E id \in 1..MaxCatchPlayers, lat \in {Lat0, Lat1} : Location(id, lat, Lng0)
  \/ Idle /\ \E room \in 1..MaxCatchRooms, cm \in {Undefined, NumStr(0)} : State(room, NoId, cm)
  \/ Receive

SpecCatch == Init /\ [][NextCatch]_vars

\* SpecViewer: two rooms, two players who come and go, and state requests
\* with every kind of playerId: none, a player of the room, a player of the
\* other room, an id of nobody, a name of an inherited property
NextViewer ==
  \/ Idle /\ \E code \in 1..MaxViewRooms :
       CreateRoom(code, DefaultConfig[1], DefaultConfig[2], DefaultConfig[3])
  \/ Idle /\ nextId <= MaxViewPlayers
          /\ \E room \in 1..MaxViewRooms, role \in {"runner", "hunter"} :
               Join(room, Undefined, role)
  \/ Idle /\ \E id \in 1..MaxViewPlayers : Leave(id, FALSE)
  \/ Idle /\ \E id \in 1..MaxViewPlayers, lat \in {Lat0, Lat1} : Location(id, lat, Lng0)
  \/ Idle /\ \E room \in 1..MaxViewRooms,
                viewerId \in (1..MaxViewPlayers) \cup {NoId, ProtoKey} :
       State(room, viewerId, Undefined)
  \/ Receive

SpecViewer == Init /\ [][NextViewer]_vars

\* ================================================================== claims
\* what the claims say of the tables, stated apart from the handler's code

\* the player has a locations row with both coordinates
Known(id) ==
  id \in DOMAIN locations /\ locations[id].lat # Null /\ locations[id].lng # Null

\* the distance in millimetres between two players of known location
DistMm(a, b) ==
  distMeters(locations[a].lat, locations[a].lng, locations[b].lat, locations[b].lng).v

\* m metres is d millimetres rounded to the nearest metre (halves up)
IsRounded(m, d) == 1000 * m - 500 <= d /\ d < 1000 * m + 500

\* the threshold in metres is a number and hunter h is within it of runner r,
\* both of the room and of known location
InCatchRange(h, r, room, catchMeters) ==
  /\ players[h].room = room /\ players[h].role = "hunter" /\ Known(h)
  /\ players[r].room = room /\ players[r].role = "runner" /\ Known(r)
  /\ IsNum(catchMeters) /\ DistMm(h, r) <= catchMeters.v * 1000

ViewerInputs == (1..MaxPlayers) \cup {NoId}

\* the step is a state request that found its room
StateAnswered(room) ==
  resp = NoResponse /\ resp'.op = "state" /\ resp'.http = 200 /\ resp'.room.code = room

StateResponse == resp.op = "state" /\ resp.http = 200

\* C1: once a player's status is 'caught' it stays 'caught' for as long as the
\* player exists, whatever request is handled.
C1_StatusMonotone ==
  [][\A id \in DOMAIN players :
       (players[id].status = "caught" /\ id \in DOMAIN players')
         => players'[id].status = "caught"]_vars

\* a caught runner whose hunter is gone, after a further state request of its
\* room that wrote nothing
C1_Witness ==
  /\ StateResponse /\ statusWrites = <<>>
  /\ \E id \in DOMAIN players :
       /\ players[id].status = "caught"
       /\ players[id].room = resp.room.code
       /\ resp.players[id].status = "caught"
       /\ \A h \in DOMAIN players : players[h].role # "hunter"

\* C2: a hunter and a runner of the room, both of known location and within
\* catchMeters of each other in the snapshot, leave the runner 'caught' in the
\* table and in the projection when the state request completes.
C2_CatchComplete ==
  [][\A room \in 1..MaxRooms, viewerId \in ViewerInputs, cm \in CatchInputs :
       (StateAnswered(room) /\ State(room, viewerId, cm))
         => \A h \in DOMAIN players, r \in DOMAIN players :
              InCatchRange(h, r, room, catchMetersOf(cm))
                => /\ players'[r].status = "caught"
                   /\ resp'.players[r].status = "caught"]_vars

\* a runner at the very coordinates of a hunter has just been caught
C2_Witness ==
  /\ StateResponse
  /\ \E h \in DOMAIN players, r \in DOMAIN players :
       /\ InCatchRange(h, r, resp.room.code, Num(0))
       /\ \E i \in DOMAIN statusWrites : statusWrites[i] = r
       /\ players[r].status = "caught"
       /\ resp.players[r].status = "caught"

\* C3: a state request of a room turns a player from 'ready' to 'caught' only
\* if the player is a runner of the room of known location with a hunter of
\* the room of known location within catchMeters.
C3_CatchSound ==
  [][\A room \in 1..MaxRooms, viewerId \in ViewerInputs, cm \in CatchInputs :
       (StateAnswered(room) /\ State(room, viewerId, cm))
         => \A r \in DOMAIN players :
              (players[r].status = "ready" /\ players'[r].status = "caught")
                => \E h \in DOMAIN players : InCatchRange(h, r, room, catchMetersOf(cm))]_vars

\* after a state request a runner is still 'ready' although a hunter stands at
\* its coordinates: the hunter is of another room, or farther than catchMeters,
\* or one of the two has a coordinate missing
C3_Witness ==
  /\ StateResponse
  /\ \E h \in DOMAIN players, r \in DOMAIN players :
       /\ players[h].role = "hunter" /\ players[h].room = resp.room.code /\ Known(h)
       /\ players[r].role = "runner" /\ players[r].status = "ready"
       /\ r \in DOMAIN locations /\ locations[r].lat = locations[h].lat
       /\ players[r].room # players[h].room

\* C4: a state request with no viewer sends, for each player, exactly id, name,
\* role and status.
C4_AnonymousProjection ==
  [][\A room \in 1..MaxRooms, cm \in CatchInputs :
       (StateAnswered(room) /\ State(room, NoId, cm))
         => /\ DOMAIN resp'.players = {id \in DOMAIN players : players[id].room = room}
            /\ \A id \in DOMAIN resp'.players :
                 DOMAIN resp'.players[id] = {"id", "name", "role", "status"}]_vars

\* a response of four-field entries about a player whose location is known
C4_Witness ==
  /\ StateResponse
  /\ \E id \in DOMAIN resp.players :
       Known(id) /\ DOMAIN resp.players[id] = {"id", "name", "role", "status"}

\* the distance field the claims expect: the rounded distance when both
\* locations are known, null otherwise
IsDistanceField(x, a, b) ==
  IF Known(a) /\ Known(b)
    THEN IsNum(x) /\ IsRounded(x.v, DistMm(a, b))
    ELSE x = Null

\* C5: to a runner, only its own entry carries lat/lng; a hunter's entry
\* carries no coordinates and distanceToRunner, the rounded distance between
\* the two (null when either location is unknown); another runner's entry
\* carries neither coordinates nor a distance.
C5_RunnerView ==
  [][\A room \in 1..MaxRooms, viewerId \in DOMAIN players, cm \in CatchInputs :
       (/\ StateAnswered(room)
        /\ players[viewerId].room = room /\ players[viewerId].role = "runner"
        /\ State(room, viewerId, cm))
         => \A id \in DOMAIN resp'.players :
              LET e == resp'.players[id]
                  coords == DOMAIN e \cap {"lat", "lng"}
                  dists == DOMAIN e \cap {"distanceToViewer", "distanceToRunner"}
              IN IF id = viewerId
                   THEN coords = {"lat", "lng"} /\ dists = {}
                        /\ e.lat = (IF id \in DOMAIN locations THEN locations[id].lat ELSE Null)
                 ELSE IF players[id].role = "hunter"
                   THEN /\ coords = {}
                        /\ dists = {"distanceToRunner"}
                        /\ IsDistanceField(e.distanceToRunner, viewerId, id)
                   ELSE coords = {} /\ dists = {}]_vars

\* a runner has been told the distance of a hunter
C5_Witness ==
  /\ StateResponse
  /\ \E v \in DOMAIN resp.players, h \in DOMAIN resp.players :
       /\ players[v].role = "runner" /\ players[h].role = "hunter"
       /\ "lat" \in DOMAIN resp.players[v]
       /\ "distanceToRunner" \in DOMAIN resp.players[h]
       /\ IsNum(resp.players[h].distanceToRunner)
       /\ resp.players[h].distanceToRunner.v > 0

\* C6: to a hunter, there is one entry per player of the room, with the stored
\* lat and lng and distanceToViewer, the rounded distance from the viewer, null
\* exactly when the viewer's or the player's location is unknown.
C6_HunterView ==
  [][\A room \in 1..MaxRooms, viewerId \in DOMAIN players, cm \in CatchInputs :
       (/\ StateAnswered(room)
        /\ players[viewerId].room = room /\ players[viewerId].role = "hunter"
        /\ State(room, viewerId, cm))
         => /\ DOMAIN resp'.players = {id \in DOMAIN players : players[id].room = room}
            /\ \A id \in DOMAIN resp'.players :
                 LET e == resp'.players[id]
                 IN /\ {"lat", "lng", "distanceToViewer"} \subseteq DOMAIN e
                    /\ e.lat = (IF id \in DOMAIN locations THEN locations[id].lat ELSE Null)
                    /\ e.lng = (IF id \in DOMAIN locations THEN locations[id].lng ELSE Null)
                    /\ IsDistanceField(e.distanceToViewer, viewerId, id)]_vars

\* a hunter has been sent the coordinates and the distance of a runner who
\* stands elsewhere
C6_Witness ==
  /\ StateResponse
  /\ \E r \in DOMAIN resp.players :
       /\ players[r].role = "runner"
       /\ "distanceToViewer" \in DOMAIN resp.players[r]
       /\ resp.players[r].lat = Lat1
       /\ IsNum(resp.players[r].distanceToViewer)
       /\ resp.players[r].distanceToViewer.v > 0

\* the zone radius a state request of room r made now returns
ZoneNow(r) == zoneRadius(rooms[r], clock)

\* the radius a room starts from: its stored startRadius, 800 when none is stored
InitialRadius(row) == IF IsNum(row.startRadius) THEN row.startRadius.v ELSE 800

\* C7: the zoneRadius a state request returns is startRadius while startedAt is
\* unset, and otherwise
\* max(20, startRadius - floor((now - startedAt) / (shrinkStepSec * 1000)) * shrinkAmount).
C7_ZoneRadiusValue ==
  StateResponse =>
    LET rm == resp.room
    IN IF rm.startedAt = Null
         THEN rm.zoneRadius = rm.startRadius
         ELSE /\ IsNum(rm.startRadius) /\ IsNum(rm.shrinkStepSec) /\ IsNum(rm.shrinkAmount)
              /\ rm.zoneRadius.v =
                   Max2(20, rm.startRadius.v
                              - ((resp.now.v - rm.startedAt.v) \div (rm.shrinkStepSec.v * 1000))
                                * rm.shrinkAmount.v)

\* C8, as claimed: for a started room the zone radius never grows from one
\* moment to the next, whatever is handled in between, and a returned
\* zoneRadius lies between 20 and startRadius.
C8_ZoneEvolution_Original ==
  [][/\ \A r \in DOMAIN rooms :
          Truthy(rooms[r].startedAt) => zoneRadius(rooms'[r], clock') <= ZoneNow(r)
     /\ \A r \in DOMAIN rooms :
          (StateAnswered(r) /\ Truthy(rooms[r].startedAt))
            => /\ IsNum(resp'.room.startRadius)
               /\ 20 <= resp'.room.zoneRadius.v
               /\ resp'.room.zoneRadius.v <= resp'.room.startRadius.v]_vars

\* C8, amended: for a started room the zone radius never grows from one
\* moment to the next unless a start request of the room is handled in
\* between, and a returned zoneRadius lies between 20 and the radius the room
\* starts from (800 for a room stored without startRadius).
C8_ZoneEvolution ==
  [][/\ \A r \in DOMAIN rooms :
          (Truthy(rooms[r].startedAt) /\ ~(resp = NoResponse /\ StartRoom(r)))
            => zoneRadius(rooms'[r], clock') <= ZoneNow(r)
     /\ \A r \in DOMAIN rooms :
          (StateAnswered(r) /\ Truthy(rooms[r].startedAt))
            => /\ 20 <= resp'.room.zoneRadius.v
               /\ resp'.room.zoneRadius.v <= InitialRadius(rooms[r])
               /\ resp'.room.zoneRadius.v = ZoneNow(r)]_vars

\* a state request has returned the floor, 20, for a room that started from 40
C8_Witness ==
  /\ StateResponse
  /\ resp.room.startedAt # Null
  /\ resp.room.startRadius = Num(40)
  /\ resp.room.zoneRadius = Num(20)

\* C9, as claimed: startedAt is null from creation, a start request sets it
\* once, a start request of a started room leaves it, and it never decreases
\* or returns to null.
C9_StartedAt_Original ==
  [][/\ \A r \in DOMAIN rooms' \ DOMAIN rooms : rooms'[r].startedAt = Null
     /\ \A r \in DOMAIN rooms :
          /\ r \in DOMAIN rooms'
          /\ rooms[r].startedAt # Null => rooms'[r].startedAt = rooms[r].startedAt
          /\ rooms'[r].startedAt # rooms[r].startedAt
               => (resp = NoResponse /\ StartRoom(r))]_vars

\* C9, amended: startedAt is null from creation until a start request; every
\* start request of an existing room, started or not, sets it to the time of
\* the request; nothing else changes it; under a clock that does not run
\* backwards it never decreases, and it never returns to null.
C9_StartedAt ==
  [][/\ \A r \in DOMAIN rooms' \ DOMAIN rooms : rooms'[r].startedAt = Null
     /\ \A r \in DOMAIN rooms :
          /\ r \in DOMAIN rooms'
          /\ (resp = NoResponse /\ StartRoom(r)) => rooms'[r].startedAt = Num(clock)
          /\ rooms'[r].startedAt # rooms[r].startedAt
               => (resp = NoResponse /\ StartRoom(r))
          /\ rooms[r].startedAt # Null
               => /\ rooms'[r].startedAt # Null
                  /\ rooms'[r].startedAt.v >= rooms[r].startedAt.v]_vars

\* a start request has been answered after the clock advanced: the room's
\* startedAt is the time of that request
C9_Witness ==
  /\ resp.op = "start" /\ resp.http = 200
  /\ clock > 1000
  /\ \E r \in DOMAIN rooms : rooms[r].startedAt = Num(clock)
  /\ resp.startedAt = Num(clock)

\* v is a stored integer between lo and hi
StoredWithin(v, lo, hi) == IsNum(v) /\ lo <= v.v /\ v.v <= hi

\* C10: every stored room has startRadius in [20, 100000], shrinkStepSec in
\* [1, 86400] and shrinkAmount in [1, 100000].
C10_ConfigClamped ==
  \A r \in DOMAIN rooms :
    /\ StoredWithin(rooms[r].startRadius, 20, 100000)
    /\ StoredWithin(rooms[r].shrinkStepSec, 1, 86400)
    /\ StoredWithin(rooms[r].shrinkAmount, 1, 100000)

\* the statuses a state request of the room with query value cm leaves in the
\* table, computed on the rows as they are now
StatusesAfter(room, cm) ==
  LET caught == detectCatches(helperMap(playerRows(room)), catchMetersOf(cm))
  IN [id \in DOMAIN caught.players |-> caught.players[id].status]

\* C11: a state request whose catchMeters is absent or is not a numeral catches
\* exactly the runners a request with catchMeters=30 catches on the same rows.
C11_CatchDefault ==
  [][\A room \in 1..MaxRooms, viewerId \in ViewerInputs, cm \in {Undefined, Str("abc")} :
       (StateAnswered(room) /\ State(room, viewerId, cm))
         => \A id \in DOMAIN StatusesAfter(room, NumStr(30)) :
              players'[id].status = StatusesAfter(room, NumStr(30))[id]]_vars

\* C12: whatever request is handled, every locations row belongs to an existing
\* player; an accepted location update leaves the player's one row holding the
\* coordinates of that update; a row changes by nothing else.
C12_LocationOwnership ==
  [][/\ DOMAIN locations' \subseteq DOMAIN players'
     /\ \A id \in 1..MaxPlayers, c \in CoordInputs :
          (/\ resp = NoResponse /\ resp'.op = "location" /\ resp'.http = 200
           /\ Location(id, c[1], c[2]))
            => /\ locations'[id] = [lat |-> c[1], lng |-> c[2], ts |-> Num(clock)]
               /\ \A o \in DOMAIN locations \ {id} : locations'[o] = locations[o]
     /\ \A id \in DOMAIN locations \cap DOMAIN locations' :
          locations'[id] # locations[id] => (resp'.op = "location" /\ resp'.http = 200)]_vars

\* a hunter who had a location has left (the only runner is caught, so a hunter
\* stood near it), and the runner's row is the one locations row that remains
C12_Witness ==
  /\ resp.op = "leave" /\ resp.http = 200
  /\ \E r \in DOMAIN players :
       /\ players[r].status = "caught"
       /\ DOMAIN players = {r}
       /\ DOMAIN locations = {r}

\* C13: a leave request that carries a player id succeeds whether or not the
\* player exists or has a location; afterwards no player and no location has
\* that id, every other row is as before, and the same leave once more would
\* change nothing.
C13_LeavePostcondition ==
  [][\A id \in 1..MaxPlayers, fkEnforced \in BOOLEAN :
       (resp = NoResponse /\ resp'.op = "leave" /\ Leave(id, fkEnforced))
         => /\ resp'.http = 200
            /\ id \notin DOMAIN players' /\ id \notin DOMAIN locations'
            /\ players' = Without(players, id)
            /\ locations' = Without(locations, id)
            /\ rooms' = rooms
            /\ Without(players', id) = players' /\ Without(locations', id) = locations']_vars

\* the request was answered not-found and no table changed
NotFoundNoMutation ==
  resp'.http = 404 /\ UNCHANGED <<rooms, players, locations>> /\ statusWrites' = <<>>

\* C14: a state request, a start request or a join that names a room that does
\* not exist, and a location update with coordinates that names a player that
\* does not exist, is answered not-found and changes no table.
C14_NotFoundNoMutation ==
  [][/\ \A room \in (1..MaxRooms) \ DOMAIN rooms :
          /\ \A viewerId \in ViewerInputs, cm \in CatchInputs :
               (resp = NoResponse /\ resp'.op = "state" /\ State(room, viewerId, cm))
                 => NotFoundNoMutation
          /\ (resp = NoResponse /\ resp'.op = "start" /\ StartRoom(room))
               => NotFoundNoMutation
          /\ \A name \in NameInputs, role \in RoleInputs :
               (resp = NoResponse /\ resp'.op = "join" /\ Join(room, name, role))
                 => NotFoundNoMutation
     /\ \A id \in (1..MaxPlayers) \ DOMAIN players, c \in CoordInputs :
          (/\ resp = NoResponse /\ resp'.op = "location"
           /\ IsNum(c[1]) /\ IsNum(c[2]) /\ Location(id, c[1], c[2]))
            => NotFoundNoMutation]_vars

\* a state request of a room that does not exist has been answered not-found
\* while, in the room that exists, a runner within 30 m of a hunter is 'ready'
C14_Witness ==
  /\ resp.op = "state" /\ resp.http = 404
  /\ \E room \in DOMAIN rooms, h \in DOMAIN players, r \in DOMAIN players :
       InCatchRange(h, r, room, Num(30)) /\ players[r].status = "ready"

\* C15: a location update with no playerId, or whose lat or lng is missing
\* (null, undefined) or is not a finite number, is answered bad-request and
\* changes neither a location nor a player; so every stored location has both
\* coordinates.
C15_LocationValidation ==
  [][/\ \A id \in (1..MaxPlayers) \cup {NoId}, c \in CoordInputs :
          (/\ resp = NoResponse /\ resp'.op = "location"
           /\ (id = NoId \/ ~IsNum(c[1]) \/ ~IsNum(c[2]))
           /\ Location(id, c[1], c[2]))
            => resp'.http = 400 /\ UNCHANGED <<players, locations>>
     /\ \A id \in DOMAIN locations' :
          IsNum(locations'[id].lat) /\ IsNum(locations'[id].lng)]_vars

\* the local map a handler would be left with after the requests rs ran one
\* after another, each to its end, starting from the rows of map
RECURSIVE SeqRun(_, _)
SeqRun(map, rs) ==
  IF rs = <<>> THEN map
  ELSE SeqRun(detectCatches(map, catchMetersOf(Head(rs).cm)).players, Tail(rs))

Reverse(rs) == [i \in 1..Len(rs) |-> rs[Len(rs) + 1 - i]]

\* every state request in flight has issued its writes, and the statuses in
\* the table are those the requests leave when run one after another, in
\* the order they came or in the opposite order
Converged ==
  (inflight.reqs # <<>> /\ \A k \in DOMAIN inflight.reqs : inflight.reqs[k].writes = <<>>)
    => \A id \in DOMAIN inflight.base :
         /\ players[id].status = SeqRun(inflight.base, inflight.reqs)[id].status
         /\ players[id].status = SeqRun(inflight.base, Reverse(inflight.reqs))[id].status

\* C16: when state requests of one room overlap, their snapshots and writes
\* interleaved at will and nothing else handled, the statuses they leave are
\* those of the requests run one after another, and no status goes back from
\* 'caught' on the way.
C16_RaceConverges ==
  /\ []Converged
  /\ [][\A id \in DOMAIN players :
          players[id].status = "caught" => players'[id].status = "caught"]_vars

\* two overlapping requests both took their snapshot while the runner was
\* 'ready', both have written 'caught' for it, and it is caught
C16_Witness ==
  /\ Len(inflight.reqs) = 2
  /\ \E r \in DOMAIN players :
       /\ inflight.base[r].status = "ready"
       /\ \A k \in DOMAIN inflight.reqs :
            inflight.reqs[k].writes = <<>> /\ inflight.reqs[k].issued = <<r>>
       /\ players[r].status = "caught"

\* C17: a state request of room R changes no room, no location, no lastSeen,
\* role or name, adds and removes no player, and changes a status only of a
\* runner of R, to 'caught'.
C17_StateFrame ==
  [][(resp = NoResponse /\ resp'.op = "state")
       => /\ rooms' = rooms
          /\ locations' = locations
          /\ DOMAIN players' = DOMAIN players
          /\ \A id \in DOMAIN players :
               \/ players'[id] = players[id]
               \/ /\ resp'.http = 200
                  /\ players[id].room = resp'.room.code
                  /\ players[id].role = "runner"
                  /\ players'[id] = [players[id] EXCEPT !.status = "caught"]]_vars

\* a state request has just caught a runner, and the hunter at the same
\* coordinates is 'ready' as before
C17_Witness ==
  /\ StateResponse
  /\ \E h \in DOMAIN players, r \in DOMAIN players :
       /\ statusWrites = <<r>>
       /\ InCatchRange(h, r, resp.room.code, Num(0))
       /\ players[r].status = "caught"
       /\ players[h].status = "ready"

\* C18: a state request issues at most one status write per runner, however
\* many hunters are within catchMeters of it, and none for a runner already
\* 'caught'; the same request made again right after issues no write.
C18_OneWritePerRunner ==
  [][\A room \in 1..MaxCatchRooms, cm \in {Undefined, NumStr(0)} :
       (StateAnswered(room) /\ State(room, NoId, cm))
         => LET first == detectCatches(helperMap(playerRows(room)), catchMetersOf(cm))
            IN /\ \A i \in DOMAIN statusWrites', j \in DOMAIN statusWrites' :
                    statusWrites'[i] = statusWrites'[j] => i = j
               /\ \A i \in DOMAIN statusWrites' :
                    players[statusWrites'[i]].status # "caught"
               \* the rows the second request reads are the first one's local map
               /\ \A id \in DOMAIN first.players :
                    players'[id].status = first.players[id].status
               /\ detectCatches(first.players, catchMetersOf(cm)).writes = <<>>]_vars

\* two hunters stand at the coordinates of a runner, and the state request
\* just answered wrote the runner's status once
C18_Witness ==
  /\ StateResponse
  /\ \E h1 \in DOMAIN players, h2 \in DOMAIN players, r \in DOMAIN players :
       /\ h1 # h2
       /\ InCatchRange(h1, r, resp.room.code, Num(0))
       /\ InCatchRange(h2, r, resp.room.code, Num(0))
       /\ statusWrites = <<r>>

\* C19: a state request of room R whose playerId is not the id of a current
\* player of R is sent the anonymous projection: for each player of R exactly
\* id, name, role and status.
C19_NonMemberAnonymous ==
  [][\A room \in 1..MaxViewRooms, viewerId \in (1..MaxViewPlayers) \cup {ProtoKey} :
       (/\ StateAnswered(room)
        /\ ~(viewerId \in DOMAIN players /\ players[viewerId].room = room)
        /\ State(room, viewerId, Undefined))
         => /\ DOMAIN resp'.players = {id \in DOMAIN players : players[id].room = room}
            /\ \A id \in DOMAIN resp'.players :
                 DOMAIN resp'.players[id] = {"id", "name", "role", "status"}]_vars

====
